---- MODULE Spec2Model ----
(***************************************************************************)
(* A model of mplWindow: the Plot window (a tk.Toplevel wrapping a         *)
(* matplotlib figure) and its two modal dialogs, textPrompt and            *)
(* limitPrompt.  The toolkit and the plotting library are represented by   *)
(* the part of their state the program's handlers read and write: which    *)
(* widgets exist, what the axes hold, what the menu entries show.          *)
(***************************************************************************)
EXTENDS Integers, Sequences, FiniteSets, TLC

(***************************************************************************)
(* Python values.  An optional value is a sequence of length 0 (None) or 1.*)
(* A number is a decimal fraction n/d with d a power of ten, kept in       *)
(* lowest decimal terms; f tells a float from an int (it only matters to   *)
(* str()).  Text that is parsed (the numeric entry fields) is a sequence   *)
(* of one-character strings; text that is only stored and shown (labels)   *)
(* is a string.                                                            *)
(***************************************************************************)
None == <<>>

Some(v) == <<v>>

PyInt(n) == [n |-> n, d |-> 1, f |-> FALSE]

RECURSIVE Canon(_, _)
Canon(n, d) ==
    IF d > 1 /\ n % 10 = 0 THEN Canon(n \div 10, d \div 10)
    ELSE [n |-> n, d |-> d, f |-> TRUE]

Flt(n) == Canon(n, 1)

(* float("inf") and float("-inf") are n = 1 and n = -1 over d = 0.         *)
Inf(sign) == [n |-> sign, d |-> 0, f |-> TRUE]

Gt(a, b) ==
    IF a.d = 0 /\ b.d = 0 THEN a.n > b.n
    ELSE IF a.d = 0 THEN a.n > 0
    ELSE IF b.d = 0 THEN b.n < 0
    ELSE a.n * b.d > b.n * a.d

Digits == <<"0", "1", "2", "3", "4", "5", "6", "7", "8", "9">>

IsDigit(c) == \E i \in 1..Len(Digits) : Digits[i] = c

DigitVal(c) == (CHOOSE i \in 1..Len(Digits) : Digits[i] = c) - 1

RECURSIVE DigitsVal(_)
DigitsVal(s) ==
    IF s = <<>> THEN 0
    ELSE 10 * DigitsVal(SubSeq(s, 1, Len(s) - 1)) + DigitVal(s[Len(s)])

RECURSIVE Pow10(_)
Pow10(k) == IF k = 0 THEN 1 ELSE 10 * Pow10(k - 1)

RECURSIVE LStrip(_)
LStrip(s) == IF s # <<>> /\ Head(s) = " " THEN LStrip(Tail(s)) ELSE s

RECURSIVE RStrip(_)
RStrip(s) ==
    IF s # <<>> /\ s[Len(s)] = " " THEN RStrip(SubSeq(s, 1, Len(s) - 1)) ELSE s

Strip(s) == RStrip(LStrip(s))

Unsigned(s) == IF s # <<>> /\ Head(s) \in {"+", "-"} THEN Tail(s) ELSE s

IsDecimal(s) ==
    /\ \A i \in 1..Len(s) : IsDigit(s[i]) \/ s[i] = "."
    /\ Cardinality({i \in 1..Len(s) : s[i] = "."}) <= 1
    /\ \E i \in 1..Len(s) : IsDigit(s[i])

WithoutDot(s) == SelectSeq(s, LAMBDA c : c # ".")

FracLen(s) ==
    IF \E i \in 1..Len(s) : s[i] = "."
    THEN Len(s) - (CHOOSE i \in 1..Len(s) : s[i] = ".")
    ELSE 0

(* Python's float(str): surrounding blanks are dropped, one sign is        *)
(* allowed, then decimal digits with at most one point and at least one    *)
(* digit, or "inf".  Anything else raises ValueError (ok = FALSE).         *)
(* Exponents, "nan" and digit-group underscores are outside the texts the  *)
(* model types into a field.                                               *)
float(s) ==
    LET t == Strip(s)
        u == Unsigned(t)
        sign == IF t # <<>> /\ Head(t) = "-" THEN -1 ELSE 1
    IN  IF u = <<"i", "n", "f">> THEN [ok |-> TRUE, val |-> Inf(sign)]
        ELSE IF IsDecimal(u)
        THEN [ok |-> TRUE,
              val |-> Canon(sign * DigitsVal(WithoutDot(u)), Pow10(FracLen(u)))]
        ELSE [ok |-> FALSE, val |-> Flt(0)]

RECURSIVE NatStr(_)
NatStr(n) ==
    IF n < 10 THEN <<Digits[n + 1]>>
    ELSE NatStr(n \div 10) \o <<Digits[(n % 10) + 1]>>

RECURSIVE FracStr(_, _)
FracStr(r, d) ==
    IF d = 1 THEN <<>>
    ELSE <<Digits[(r \div (d \div 10)) + 1]>> \o FracStr(r % (d \div 10), d \div 10)

(* Python's str() of an int or of a float: "12", "12.0", "-2.5".           *)
str(x) ==
    LET a == IF x.n < 0 THEN -x.n ELSE x.n
        sgn == IF x.n < 0 THEN <<"-">> ELSE <<>>
    IN  IF x.d = 0 THEN sgn \o <<"i", "n", "f">>
        ELSE IF ~x.f THEN sgn \o NatStr(a)
        ELSE sgn \o NatStr(a \div x.d) \o <<".">>
                 \o (IF x.d = 1 THEN <<"0">> ELSE FracStr(a % x.d, x.d))

(***************************************************************************)
(* State.                                                                  *)
(*   plot   the Plot instance: its fields, its widgets, its axes           *)
(*   call   the arguments of the Plot(...) call that made it               *)
(*   env    the platform, and whether the window is large enough for the   *)
(*          figure's layout pass to succeed                                *)
(*   dlg    the modal dialog instance (textPrompt or limitPrompt)          *)
(*   focus  the window holding the keyboard focus                          *)
(*   ev     the last event handled: which handler ran, whether it raised,  *)
(*          how many times it ran the render step                          *)
(*   tog    the run of consecutive toggles of one log-scale entry that the *)
(*          last event ended: the axis, how many (up to 2), the flags and  *)
(*          scales before the last and before the last but one of them,    *)
(*          whether each ran the render step once                          *)
(*   seen   history of the dialog: whether an OK came while the fields     *)
(*          were acceptable, whether one came while they were not          *)
(*   steps  the number of events handled so far                            *)
(*   peer   what else holds the objects the caller passed: other, the      *)
(*          data, fmt and labels stored by a second Plot constructed by    *)
(*          the same call and left alone since, and args, the caller's own *)
(*          data, fmt and labels arguments as they read now                *)
(***************************************************************************)
VARIABLES plot, call, env, dlg, focus, ev, tog, seen, steps, peer

vars == <<plot, call, env, dlg, focus, ev, tog, seen, steps, peer>>

(***************************************************************************)
(* Texts a user types.  LabelTexts go into the free-text entry; FieldTexts *)
(* go into the entries read with float().                                  *)
(***************************************************************************)
LabelTexts == {"", "Shot A", "Energy (keV)"}

FieldTexts ==
    { <<>>, <<"2">>, <<"5">>, <<"1", "2">>, <<"a", "b", "c">>,
      <<"2", ".", "5">>, <<"-", "5">>, <<" ", "2", " ">>, <<"5", ".", "0">>,
      <<"2", ".">>, <<"1", "2", "p", "t">> }

(***************************************************************************)
(* textPrompt                                                              *)
(***************************************************************************)
NoDialog ==
    [cls |-> "none", state |-> "none", parent |-> None, getFontSize |-> FALSE,
     var |-> "", fontVar |-> None, var1 |-> <<>>, var2 |-> <<>>,
     result |-> None, withdrawn |-> FALSE, opener |-> "none", target |-> 0]

(* textPrompt.__init__ with __create_widgets__: the text entry always      *)
(* exists, the font-size entry only when getFontSize; the dialog takes the *)
(* focus and waits.  initValue is None or Some(text), initFontSize is None *)
(* or Some(number).                                                        *)
textPrompt(parent, initValue, initFontSize, getFontSize, opener, target) ==
    [cls |-> "textPrompt", state |-> "open", parent |-> parent,
     getFontSize |-> getFontSize,
     var |-> IF initValue = None THEN "" ELSE initValue[1],
     fontVar |-> IF getFontSize
                 THEN Some(str(IF initFontSize = None THEN PyInt(10)
                                                      ELSE initFontSize[1]))
                 ELSE None,
     var1 |-> <<>>, var2 |-> <<>>,
     result |-> None, withdrawn |-> FALSE, opener |-> opener, target |-> target]

(* A validation that wants a font size whether or not one was asked for.   *)
textPrompt_validate_always(d) ==
    IF d.fontVar = None THEN FALSE ELSE float(d.fontVar[1]).ok

textPrompt_validate(d) ==
    IF ~d.getFontSize THEN TRUE
    ELSE IF d.fontVar = None THEN FALSE
    ELSE float(d.fontVar[1]).ok

textPrompt_apply(d) ==
    IF d.getFontSize
    THEN [d EXCEPT !.result = <<d.var, Some(float(d.fontVar[1]).val)>>]
    ELSE [d EXCEPT !.result = <<d.var, None>>]

(* A cancel that hands the focus back but leaves the dialog standing.      *)
textPrompt_cancel_keeps(g) ==
    [dlg |-> g.dlg,
     focus |-> IF g.dlg.parent # None THEN g.dlg.parent[1] ELSE g.focus]

(* g is the pair [dlg, focus]: the handlers move the focus as well.        *)
textPrompt_cancel(g) ==
    [dlg |-> [g.dlg EXCEPT !.state = "destroyed"],
     focus |-> IF g.dlg.parent # None THEN g.dlg.parent[1] ELSE g.focus]

textPrompt_ok(g) ==
    IF ~textPrompt_validate(g.dlg) THEN g
    ELSE textPrompt_cancel(
             [g EXCEPT !.dlg = [textPrompt_apply(g.dlg) EXCEPT !.withdrawn = TRUE]])

(***************************************************************************)
(* limitPrompt                                                             *)
(***************************************************************************)
limitPrompt(parent, initValue, opener) ==
    [cls |-> "limitPrompt", state |-> "open", parent |-> parent,
     getFontSize |-> FALSE, var |-> "", fontVar |-> None,
     var1 |-> str(initValue[1]), var2 |-> str(initValue[2]),
     result |-> None, withdrawn |-> FALSE, opener |-> opener, target |-> 0]

(* A validation that lets max equal min.                                   *)
limitPrompt_validate_equal(d) ==
    LET temp1 == float(d.var1)
        temp2 == float(d.var2)
    IN  IF temp1.ok /\ temp2.ok THEN ~Gt(temp1.val, temp2.val) ELSE FALSE

limitPrompt_validate(d) ==
    LET temp1 == float(d.var1)
        temp2 == float(d.var2)
    IN  IF temp1.ok /\ temp2.ok THEN Gt(temp2.val, temp1.val) ELSE FALSE

limitPrompt_apply(d) ==
    [d EXCEPT !.result = <<float(d.var1).val, float(d.var2).val>>]

(* A cancel that destroys the dialog and leaves the focus where it was.    *)
limitPrompt_cancel_nofocus(g) ==
    [dlg |-> [g.dlg EXCEPT !.state = "destroyed"], focus |-> g.focus]

limitPrompt_cancel(g) ==
    [dlg |-> [g.dlg EXCEPT !.state = "destroyed"],
     focus |-> IF g.dlg.parent # None THEN g.dlg.parent[1] ELSE g.focus]

limitPrompt_ok(g) ==
    IF ~limitPrompt_validate(g.dlg) THEN g
    ELSE limitPrompt_cancel(
             [g EXCEPT !.dlg = [limitPrompt_apply(g.dlg) EXCEPT !.withdrawn = TRUE]])

(***************************************************************************)
(* Plot                                                                    *)
(***************************************************************************)
TYPE_PLOT == 0

TYPE_ERRORBAR == 1

TYPE_BAR == 2

TYPE_HISTOGRAM == 3

TYPE_2DHISTOGRAM == 4

TYPE_CONTOUR == 5

TYPE_IMAGE == 6

TYPE_COLORMESH == 7

TYPE_DATEPLOT == 8

TYPE_VECTOR == 9

PlotTypes == TYPE_PLOT..TYPE_VECTOR

(* A Python argument that may be None, a str, a list, a tuple or something *)
(* else (t = "int"); a str s is carried as items = <<s>>.                  *)
PyNone == [t |-> "None", items |-> <<>>]

PyStr(s) == [t |-> "str", items |-> <<s>>]

PyList(items) == [t |-> "list", items |-> items]

PyTuple(items) == [t |-> "tuple", items |-> items]

PyOther == [t |-> "int", items |-> <<>>]

Unset == [t |-> "unset", items |-> <<>>]

(* 'Series ' + str(i+1), i from 0 *)
SeriesNames ==
    <<"Series 1", "Series 2", "Series 3", "Series 4", "Series 5", "Series 6">>

(* A fresh or cleared matplotlib Axes: nothing drawn, linear scales,       *)
(* automatic limits, empty labels and title at the default sizes, no       *)
(* legend.                                                                 *)
AxesCleared ==
    [series |-> <<>>, xscale |-> "linear", yscale |-> "linear",
     xlim |-> None, ylim |-> None,
     xlabel |-> [text |-> "", size |-> Flt(10)],
     ylabel |-> [text |-> "", size |-> Flt(10)],
     title |-> [text |-> "", size |-> Flt(12)],
     legend |-> None]

NoData == [isArray |-> FALSE, shape |-> <<>>]

NoPlot ==
    [stage |-> "none", win |-> "none",
     data |-> NoData, fmt |-> PyNone, labels |-> Unset,
     xlabel |-> "", xlabelSize |-> PyInt(12),
     ylabel |-> "", ylabelSize |-> PyInt(12),
     title |-> "", titleSize |-> PyInt(14),
     xlim |-> None, ylim |-> None, logX |-> FALSE, logY |-> FALSE,
     legend |-> FALSE, legendLoc |-> 1, legendFontSize |-> 10,
     plotTypeVar |-> 0, showToolbar |-> FALSE,
     typeMenu |-> [t \in PlotTypes |-> FALSE], relabelMenu |-> <<>>,
     toolbar |-> "None", toolbars |-> 0,
     ax |-> AxesCleared, drawn |-> AxesCleared]

(* One drawing call of __plot__ (ax.plot, ax.errorbar, ax.bar, ax.hist).   *)
(* x and y are the index prefixes of the data passed (data[i,0,:] is       *)
(* <<i, 0>>; y is None for hist), f is None or the index into fmt, i the   *)
(* index into labels.  An index past the end raises IndexError.            *)
DrawCall(p, kind, x, y, f, i) ==
    LET InData(ix) == \A k \in 1..Len(ix) : ix[k] < p.data.shape[k]
        ok == /\ InData(x)
              /\ y # None => InData(y[1])
              /\ f # None => f[1] < Len(p.fmt.items)
              /\ i < Len(p.labels.items)
    IN  [raised |-> ~ok,
         series |-> IF ok
                    THEN << [kind |-> kind, x |-> x, y |-> y,
                             fmt |-> IF f = None THEN None
                                     ELSE Some(p.fmt.items[f[1] + 1]),
                             label |-> p.labels.items[i + 1]] >>
                    ELSE <<>>]

(* The call made for a single series (len(self.data.shape) == 2, or 1 for  *)
(* a histogram).                                                           *)
SingleCall(p, t) ==
    IF t = TYPE_PLOT
    THEN DrawCall(p, "plot", <<0>>, Some(<<1>>),
                  IF p.fmt.t # "None" THEN Some(0) ELSE None, 0)
    ELSE IF t = TYPE_ERRORBAR
    THEN DrawCall(p, "errorbar", <<0>>, Some(<<1>>),
                  IF p.fmt.t # "None" THEN Some(0) ELSE None, 0)
    ELSE IF t = TYPE_BAR
    THEN DrawCall(p, "bar", <<0>>, Some(<<1>>), None, 0)
    ELSE DrawCall(p, "hist", <<>>, None, None, 0)

(* The call made for series i inside the loops over self.data.shape[0].    *)
LoopCall(p, t, i) ==
    IF t = TYPE_PLOT
    THEN DrawCall(p, "plot", <<i, 0>>, Some(<<i, 1>>),
                  IF p.fmt.t # "None" THEN Some(i) ELSE None, i)
    ELSE IF t = TYPE_ERRORBAR
    THEN IF p.fmt.t # "None"
         THEN DrawCall(p, "errorbar", <<0>>, Some(<<1>>), Some(i), i)
         ELSE DrawCall(p, "errorbar", <<i, 0>>, Some(<<i, 1>>), None, i)
    ELSE IF t = TYPE_BAR
    THEN DrawCall(p, "bar", <<i, 0>>, Some(<<i, 1>>), None, i)
    ELSE DrawCall(p, "hist", <<i>>, None, None, i)

RECURSIVE DrawLoop(_, _, _, _)
DrawLoop(p, t, i, n) ==
    IF i >= n THEN [raised |-> FALSE, series |-> <<>>]
    ELSE LET c == LoopCall(p, t, i)
         IN  IF c.raised THEN c
             ELSE LET r == DrawLoop(p, t, i + 1, n)
                  IN  [raised |-> r.raised, series |-> c.series \o r.series]

(* A dispatch that ends in an else branch raising for an unknown type.     *)
DrawType_strict(p) ==
    LET t == p.plotTypeVar
        shape == p.data.shape
        rank == Len(shape)
        Raise == [raised |-> TRUE, series |-> <<>>]
    IN  IF t \in {TYPE_PLOT, TYPE_ERRORBAR, TYPE_BAR}
        THEN IF rank < 2 THEN Raise
             ELSE IF shape[rank - 1] # 2 THEN Raise
             ELSE IF rank = 2 THEN SingleCall(p, t)
             ELSE DrawLoop(p, t, 0, shape[1])
        ELSE IF t = TYPE_HISTOGRAM
        THEN IF rank = 1 THEN SingleCall(p, t)
             ELSE IF rank # 2 THEN Raise
             ELSE DrawLoop(p, t, 0, shape[1])
        ELSE Raise

(* The dispatch on the plot type at the head of __plot__.  The types from  *)
(* TYPE_2DHISTOGRAM on have no branch: nothing is drawn.                   *)
DrawType(p) ==
    LET t == p.plotTypeVar
        shape == p.data.shape
        rank == Len(shape)
        Raise == [raised |-> TRUE, series |-> <<>>]
    IN  IF t \in {TYPE_PLOT, TYPE_ERRORBAR, TYPE_BAR}
        THEN IF rank < 2 THEN Raise
             ELSE IF shape[rank - 1] # 2 THEN Raise
             ELSE IF rank = 2 THEN SingleCall(p, t)
             ELSE DrawLoop(p, t, 0, shape[1])
        ELSE IF t = TYPE_HISTOGRAM
        THEN IF rank = 1 THEN SingleCall(p, t)
             ELSE IF rank # 2 THEN Raise
             ELSE DrawLoop(p, t, 0, shape[1])
        ELSE [raised |-> FALSE, series |-> <<>>]

AsFloat(x) == [x EXCEPT !.f = TRUE]

(* The axes after the type-specific drawing and the common configuration   *)
(* of limits, scales, labels, title and legend.                            *)
Configured(p, series) ==
    [series |-> series,
     xscale |-> IF p.logX THEN "log" ELSE "linear",
     yscale |-> IF p.logY THEN "log" ELSE "linear",
     xlim |-> p.xlim, ylim |-> p.ylim,
     xlabel |-> IF p.xlabel # ""
                THEN [text |-> p.xlabel, size |-> AsFloat(p.xlabelSize)]
                ELSE AxesCleared.xlabel,
     ylabel |-> IF p.ylabel # ""
                THEN [text |-> p.ylabel, size |-> AsFloat(p.ylabelSize)]
                ELSE AxesCleared.ylabel,
     title |-> IF p.title # ""
               THEN [text |-> p.title, size |-> AsFloat(p.titleSize)]
               ELSE AxesCleared.title,
     legend |-> IF p.legend
                THEN Some([loc |-> p.legendLoc, fontsize |-> p.legendFontSize])
                ELSE None]

(* The toolbar step of __plot__: a new NavigationToolbar2TkAgg each time   *)
(* the flag is on; with the flag off, the toolbar last created is          *)
(* destroyed.                                                              *)
ToolbarStep(p) ==
    IF p.showToolbar
    THEN [p EXCEPT !.toolbar = "live", !.toolbars = @ + 1]
    ELSE IF p.toolbar = "live"
    THEN [p EXCEPT !.toolbar = "destroyed", !.toolbars = @ - 1]
    ELSE p

(* Plot.__plot__: clear, draw by type, configure, fit the layout, toolbar, *)
(* canvas.draw().  An exception leaves the axes as they were when it was   *)
(* raised and skips the rest.  fig.tight_layout() raises ValueError when   *)
(* the window is too small for the figure's decorations (~e.fits).         *)
Plot_plot(p, e) ==
    LET d == DrawType(p)
    IN  IF d.raised
        THEN [plot |-> [p EXCEPT !.ax = [AxesCleared EXCEPT !.series = d.series]],
              raised |-> TRUE]
        ELSE IF ~e.fits
        THEN [plot |-> [p EXCEPT !.ax = Configured(p, d.series)], raised |-> TRUE]
        ELSE LET q == ToolbarStep([p EXCEPT !.ax = Configured(p, d.series)])
             IN  [plot |-> [q EXCEPT !.drawn = q.ax], raised |-> FALSE]

(* Plot.__menubar__: the plot-type radio entries with their states, the   *)
(* variable behind them, the relabel menu with one command per label, the  *)
(* toolbar flag.  relabelMenu is made without tearoff=0, so outside macOS  *)
(* (where Tk ignores the option) its entry 0 is the tear-off entry and the *)
(* commands start at index 1.  Reading self.labels raises AttributeError   *)
(* when __init__ did not set it.                                           *)
Plot_menubar(p, plotType, e) ==
    LET rank == Len(p.data.shape)
        shape == IF rank >= 2 THEN p.data.shape[rank - 1] ELSE 1
        stateHist == shape = 1 \/ p.data.shape[1] = Len(p.labels.items)
        state(k) == shape = k
        entries == [i \in 1..Len(p.labels.items) |->
                       [kind |-> "command", label |-> p.labels.items[i],
                        series |-> i - 1]]
    IN  IF p.labels.t = "unset" THEN [plot |-> p, raised |-> TRUE]
        ELSE [plot |->
                [p EXCEPT
                   !.typeMenu =
                       [t \in PlotTypes |->
                          IF t \in {TYPE_PLOT, TYPE_ERRORBAR, TYPE_BAR,
                                    TYPE_2DHISTOGRAM, TYPE_DATEPLOT}
                          THEN state(2)
                          ELSE IF t = TYPE_HISTOGRAM THEN stateHist
                          ELSE IF t \in {TYPE_CONTOUR, TYPE_COLORMESH} THEN state(3)
                          ELSE IF t = TYPE_VECTOR THEN state(4)
                          ELSE TRUE],
                   !.plotTypeVar = plotType,
                   !.relabelMenu =
                       (IF e.platform = "Darwin" THEN <<>>
                        ELSE << [kind |-> "tearoff", label |-> "", series |-> -1] >>)
                       \o entries,
                   !.showToolbar = FALSE,
                   !.stage = "menubar"],
              raised |-> FALSE]

(* The defaults of Plot.__init__'s parameters. *)
DefaultArgs ==
    [data |-> NoData, plotType |-> TYPE_PLOT, fmt |-> PyNone, labels |-> PyNone,
     xlabel |-> "", xlabelSize |-> PyInt(12), ylabel |-> "", ylabelSize |-> PyInt(12),
     logX |-> FALSE, logY |-> FALSE, xlim |-> None, ylim |-> None,
     legend |-> FALSE, legendLoc |-> 1, legendFontSize |-> 10,
     title |-> "", titleSize |-> PyInt(14)]

(* The fmt and labels that Plot.__init__ stores.  `and` binds tighter than *)
(* `or` in the test on fmt: a list is stored whatever its length, a tuple  *)
(* only when its length is data.shape[0].                                  *)
StoredFmt(a) ==
    LET fmt == IF a.fmt.t = "str" THEN PyList(a.fmt.items) ELSE a.fmt
    IN  IF fmt.t = "list" \/ (fmt.t = "tuple" /\ Len(fmt.items) = a.data.shape[1])
        THEN fmt
        ELSE PyNone

StoredLabels(a) ==
    LET l1 == IF a.labels.t = "None"
              THEN IF Len(a.data.shape) = 2 THEN PyStr(SeriesNames[1])
                   ELSE PyList(SubSeq(SeriesNames, 1, a.data.shape[1]))
              ELSE a.labels
        l2 == IF l1.t = "str" THEN PyList(l1.items) ELSE l1
    IN  IF l2.t \in {"list", "tuple"} THEN l2 ELSE Unset

(* Plot.__init__.  a is the call's arguments.  The Toplevel exists from    *)
(* the first statement on; stage tells how far the constructor got:        *)
(* "toplevel", "canvas" (after __initPlot__), "menubar", "bound" (close    *)
(* and resize handlers installed), "plotted" (the first __plot__ ended).   *)
Plot_init(a, e) ==
    LET p0 == [NoPlot EXCEPT !.stage = "toplevel", !.win = "shown"]
        p1 == [p0 EXCEPT !.data = a.data, !.fmt = StoredFmt(a),
                         !.labels = StoredLabels(a),
                         !.xlabel = a.xlabel, !.xlabelSize = a.xlabelSize,
                         !.ylabel = a.ylabel, !.ylabelSize = a.ylabelSize,
                         !.title = a.title, !.titleSize = a.titleSize,
                         !.xlim = a.xlim, !.ylim = a.ylim,
                         !.logX = a.logX, !.logY = a.logY,
                         !.legend = a.legend, !.legendLoc = a.legendLoc,
                         !.legendFontSize = a.legendFontSize,
                         !.stage = "canvas"]
        m == Plot_menubar(p1, a.plotType, e)
        r == Plot_plot([m.plot EXCEPT !.stage = "bound"], e)
    IN  IF ~a.data.isArray THEN [plot |-> p0, raised |-> TRUE]
        ELSE IF m.raised THEN m
        ELSE IF r.raised THEN r
        ELSE [plot |-> [r.plot EXCEPT !.stage = "plotted"], raised |-> FALSE]

(* Handlers.  Each gives the Plot after the handler, whether it raised,    *)
(* and how many times it ran __plot__.                                     *)
Traced(p, e) ==
    LET r == Plot_plot(p, e)
    IN  [plot |-> r.plot, raised |-> r.raised, renders |-> 1]

Quiet(p) == [plot |-> p, raised |-> FALSE, renders |-> 0]

(* A Log x entry that can only switch the flag on.                         *)
SetLogX_sticky(p, e, v) == Traced([p EXCEPT !.logX = TRUE], e)

(* The menu's check and radio entries write a Tk variable; the write       *)
(* trace runs __plot__.                                                    *)
SetLogX(p, e, v) == Traced([p EXCEPT !.logX = v], e)

SetLogY(p, e, v) == Traced([p EXCEPT !.logY = v], e)

SetLegend(p, e, v) == Traced([p EXCEPT !.legend = v], e)

SetLegendLoc(p, e, v) == Traced([p EXCEPT !.legendLoc = v], e)

SetLegendFontSize(p, e, v) == Traced([p EXCEPT !.legendFontSize = v], e)

SetPlotType(p, e, t) == Traced([p EXCEPT !.plotTypeVar = t], e)

SetShowToolbar(p, e, v) == Traced([p EXCEPT !.showToolbar = v], e)

(* A close that destroys the window instead of withdrawing it.            *)
Plot_close_destroys(p) == Quiet([p EXCEPT !.win = "destroyed"])

(* Plot.__close__: self.withdraw() *)
Plot_close(p) == Quiet([p EXCEPT !.win = "hidden"])

(* The Window menu's Minimize: self.iconify() *)
Plot_minimize(p) == Quiet([p EXCEPT !.win = "iconic"])

(* Plot.__zoom__: wm_state('zoomed') is an error on X11, where Tk knows    *)
(* no such state; elsewhere the window is maximised and the canvas drawn.  *)
Plot_zoom(p, e) ==
    IF e.platform = "Linux" THEN [plot |-> p, raised |-> TRUE, renders |-> 0]
    ELSE Quiet([p EXCEPT !.win = "zoomed", !.drawn = p.ax])

(* Plot.__resize__: the layout pass, its ValueError discarded.             *)
Plot_resize(p, e) == Quiet(p)

(* Plot.__save__ (pass) and Plot.__about__ (a message box).                *)
Plot_save(p) == Quiet(p)

Plot_about(p) == Quiet(p)

(* What the axis reports as its data interval: (inf, -inf) while nothing   *)
(* is drawn, the extent of the samples otherwise (1..3 in the samples of   *)
(* test.py).                                                               *)
DataInterval(ax) ==
    IF ax.series = <<>> THEN <<Inf(1), Inf(-1)>> ELSE <<Flt(1), Flt(3)>>

(* The dialog each menu command opens. *)
OpenFor(p, opener, i) ==
    IF opener = "relabel"
    THEN textPrompt(Some("plot"), Some(p.labels.items[i + 1]), None, FALSE,
                    opener, i)
    ELSE IF opener = "xlabel"
    THEN textPrompt(Some("plot"), Some(p.ax.xlabel.text), Some(p.ax.xlabel.size),
                    TRUE, opener, 0)
    ELSE IF opener = "ylabel"
    THEN textPrompt(Some("plot"), Some(p.ax.ylabel.text), Some(p.ax.ylabel.size),
                    TRUE, opener, 0)
    ELSE IF opener = "title"
    THEN textPrompt(Some("plot"), Some(p.ax.title.text), Some(p.ax.title.size),
                    TRUE, opener, 0)
    ELSE limitPrompt(Some("plot"), DataInterval(p.ax), opener)

(* Plot.__relabel__ after the dialog returned a result: the item           *)
(* assignment (TypeError on a tuple), __plot__, then entryconfig(i) on the *)
(* relabel menu (TclError on the tear-off entry, which has no label).      *)
Plot_relabel(p, e, i, result) ==
    LET q == [p EXCEPT !.labels.items[i + 1] = result[1]]
        r == Plot_plot(q, e)
    IN  IF p.labels.t = "tuple" THEN [plot |-> p, raised |-> TRUE, renders |-> 0]
        ELSE IF r.raised THEN [plot |-> r.plot, raised |-> TRUE, renders |-> 1]
        ELSE IF i + 1 > Len(p.relabelMenu) \/ r.plot.relabelMenu[i + 1].kind = "tearoff"
        THEN [plot |-> r.plot, raised |-> TRUE, renders |-> 1]
        ELSE [plot |-> [r.plot EXCEPT !.relabelMenu[i + 1].label = result[1]],
              raised |-> FALSE, renders |-> 1]

(* Plot.__setXLabel__, __setYLabel__ after the dialog returned a result.   *)
Plot_setXLabel(p, result) ==
    LET a == [p.ax EXCEPT !.xlabel = [text |-> result[1], size |-> result[2][1]]]
    IN  Quiet([p EXCEPT !.ax = a, !.drawn = a,
                        !.xlabel = result[1], !.xlabelSize = result[2][1]])

Plot_setYLabel(p, result) ==
    LET a == [p.ax EXCEPT !.ylabel = [text |-> result[1], size |-> result[2][1]]]
    IN  Quiet([p EXCEPT !.ax = a, !.drawn = a,
                        !.ylabel = result[1], !.ylabelSize = result[2][1]])

(* Plot.__setTitle__: the layout pass comes before the draw and the store. *)
Plot_setTitle(p, e, result) ==
    LET a == [p.ax EXCEPT !.title = [text |-> result[1], size |-> result[2][1]]]
    IN  IF ~e.fits THEN [plot |-> [p EXCEPT !.ax = a], raised |-> TRUE, renders |-> 0]
        ELSE Quiet([p EXCEPT !.ax = a, !.drawn = a,
                             !.title = result[1], !.titleSize = result[2][1]])

(* Plot.__setXLim__, __setYLim__ *)
Plot_setXLim(p, result) ==
    LET a == [p.ax EXCEPT !.xlim = Some(result)]
    IN  Quiet([p EXCEPT !.xlim = Some(result), !.ax = a, !.drawn = a])

Plot_setYLim(p, result) ==
    LET a == [p.ax EXCEPT !.ylim = Some(result)]
    IN  Quiet([p EXCEPT !.ylim = Some(result), !.ax = a, !.drawn = a])

(* The opener's code after wait_window returns: nothing when the dialog    *)
(* has no result.                                                          *)
Resume(p, e, d) ==
    IF d.opener = "none" \/ d.result = None THEN Quiet(p)
    ELSE IF d.opener = "relabel" THEN Plot_relabel(p, e, d.target, d.result)
    ELSE IF d.opener = "xlabel" THEN Plot_setXLabel(p, d.result)
    ELSE IF d.opener = "ylabel" THEN Plot_setYLabel(p, d.result)
    ELSE IF d.opener = "title" THEN Plot_setTitle(p, e, d.result)
    ELSE IF d.opener = "xlim" THEN Plot_setXLim(p, d.result)
    ELSE Plot_setYLim(p, d.result)

(***************************************************************************)
(* Events.                                                                 *)
(***************************************************************************)
Snap(p) ==
    [logX |-> p.logX, logY |-> p.logY,
     xscale |-> p.ax.xscale, yscale |-> p.ax.yscale]

NoEvent == [op |-> "none", raised |-> FALSE, renders |-> 0]

NoTog ==
    [axis |-> "none", count |-> 0, before1 |-> Snap(NoPlot),
     before2 |-> Snap(NoPlot), redrawn |-> TRUE]

Fresh == [okPassed |-> FALSE, okFailed |-> FALSE]

(* The data, fmt and labels of a Plot or of a call's arguments.            *)
Held(x) == [data |-> x.data, fmt |-> x.fmt, labels |-> x.labels]

NoPeer == [other |-> Held(NoPlot), args |-> Held(DefaultArgs)]

(* What a handler that took the Plot from p to q did to the objects the    *)
(* Plot shares.  __init__ keeps a copy of the data (np.copy) and the very  *)
(* fmt and labels objects it was given when they are a list or a tuple,    *)
(* and makes a list of its own from None or a str; an item assignment to   *)
(* self.labels therefore writes the caller's list, which a second Plot     *)
(* made from that list holds as well.                                      *)
Aliased(pr, a, p, q) ==
    IF a.labels.t = "list" /\ q.labels # p.labels
    THEN [other |-> [pr.other EXCEPT !.labels = q.labels],
          args |-> [pr.args EXCEPT !.labels = q.labels]]
    ELSE pr

(* Handler outcome (a handler's outcome, taken once as h) ran for event op. *)
Ran(op, outcome) ==
    \E h \in {outcome} :
        /\ plot' = h.plot
        /\ IF op = "init" THEN TRUE ELSE peer' = Aliased(peer, call, plot, h.plot)
        /\ ev' = [op |-> op, raised |-> h.raised, renders |-> h.renders]

Handled(op, h) == Ran(op, h) /\ tog' = NoTog

(* One more toggle of the log-scale entry of an axis. *)
Toggled(axis, h) ==
    tog' = IF tog.axis = axis
           THEN [axis |-> axis, count |-> 2, before1 |-> Snap(plot),
                 before2 |-> tog.before1,
                 redrawn |-> tog.redrawn /\ h.renders = 1]
           ELSE [axis |-> axis, count |-> 1, before1 |-> Snap(plot),
                 before2 |-> Snap(plot), redrawn |-> h.renders = 1]

(* The constructor's handlers are installed and the menu is in place.      *)
Built(p) == p.stage \in {"bound", "plotted"}

(* The user can reach the window's menus and key bindings: the window is   *)
(* on screen and no modal dialog holds the grab.                           *)
UserCan == Built(plot) /\ plot.win \in {"shown", "zoomed"} /\ dlg.state # "open"

Menu(op, h) ==
    /\ UserCan
    /\ Handled(op, h)
    /\ UNCHANGED <<call, env, dlg, focus, seen>>

(* bar = Plot(data, ...) *)
Construct(a) ==
    /\ plot.stage = "none"
    /\ LET r == Plot_init(a, env)
       IN  Handled("init", [plot |-> r.plot, raised |-> r.raised,
                                renders |-> IF Built(r.plot) THEN 1 ELSE 0])
           /\ peer' = [other |-> Held(r.plot), args |-> Held(a)]
    /\ call' = a
    /\ UNCHANGED <<env, dlg, focus, seen>>

ToggleLog(axis, h) ==
    /\ UserCan
    /\ Ran("log", h)
    /\ Toggled(axis, ev')
    /\ UNCHANGED <<call, env, dlg, focus, seen>>

ToggleLogX == ToggleLog("x", SetLogX(plot, env, ~plot.logX))

ToggleLogY == ToggleLog("y", SetLogY(plot, env, ~plot.logY))

ToggleLegend == Menu("legend", SetLegend(plot, env, ~plot.legend))

SelectLegendLoc(v) == Menu("legendLoc", SetLegendLoc(plot, env, v))

SelectLegendFontSize(v) == Menu("legendFontSize", SetLegendFontSize(plot, env, v))

SelectPlotType(t) ==
    /\ plot.typeMenu[t]
    /\ Menu("plotType", SetPlotType(plot, env, t))

ToggleToolbar == Menu("showToolbar", SetShowToolbar(plot, env, ~plot.showToolbar))

Minimize == Menu("minimize", Plot_minimize(plot))

Zoom == Menu("zoom", Plot_zoom(plot, env))

Save == Menu("save", Plot_save(plot))

About == Menu("about", Plot_about(plot))

(* The close paths: Escape, the Quit entry and the two shortcuts need the  *)
(* window to have the input; the window manager's close request and        *)
(* requests already queued arrive whatever the window's state.             *)
ClosePaths == {"Escape", "WM_DELETE_WINDOW", "Quit", "shortcut-q", "shortcut-w"}

Close(via) ==
    /\ Built(plot)
    /\ via = "WM_DELETE_WINDOW" \/ dlg.state # "open"
    /\ Handled("close", Plot_close(plot))
    /\ UNCHANGED <<call, env, dlg, focus, seen>>

(* A Toplevel whose constructor raised before the protocol handler was     *)
(* installed keeps Tk's default: the close request destroys it.            *)
DefaultClose ==
    /\ plot.stage \in {"toplevel", "canvas", "menubar"}
    /\ plot.win = "shown"
    /\ Handled("close", Quiet([plot EXCEPT !.win = "destroyed"]))
    /\ UNCHANGED <<call, env, dlg, focus, seen>>

(* The window manager brings an iconified window back.                     *)
Restore ==
    /\ Built(plot) /\ plot.win = "iconic"
    /\ Handled("restore", Quiet([plot EXCEPT !.win = "shown"]))
    /\ UNCHANGED <<call, env, dlg, focus, seen>>

(* <Configure>: the window is resized, to a size where the layout pass     *)
(* succeeds (fits) or fails.                                               *)
Resize(fits) ==
    /\ Built(plot) /\ plot.win \in {"shown", "zoomed"}
    /\ env' = [env EXCEPT !.fits = fits]
    /\ Handled("resize", Plot_resize(plot, env'))
    /\ UNCHANGED <<call, dlg, focus, seen>>

(* A menu command that opens a dialog and waits for it. *)
Open(opener, i) ==
    /\ UserCan
    /\ dlg' = OpenFor(plot, opener, i)
    /\ focus' = "dialog"
    /\ seen' = Fresh
    /\ Handled(opener, Quiet(plot))
    /\ UNCHANGED <<call, env>>

OpenRelabel(i) ==
    /\ \E k \in 1..Len(plot.relabelMenu) : plot.relabelMenu[k].series = i
    /\ Open("relabel", i)

(* The user edits an entry of the open dialog. *)
Edit(d) ==
    /\ dlg.state = "open"
    /\ dlg' = d
    /\ Handled("type", Quiet(plot))
    /\ UNCHANGED <<call, env, focus, seen>>

TypeText(s) == dlg.cls = "textPrompt" /\ Edit([dlg EXCEPT !.var = s])

TypeFont(s) ==
    /\ dlg.cls = "textPrompt" /\ dlg.getFontSize
    /\ Edit([dlg EXCEPT !.fontVar = Some(s)])

TypeMin(s) == dlg.cls = "limitPrompt" /\ Edit([dlg EXCEPT !.var1 = s])

TypeMax(s) == dlg.cls = "limitPrompt" /\ Edit([dlg EXCEPT !.var2 = s])

(* What the program's validation is meant to accept, stated on the field   *)
(* contents: a font size that is a number where one is asked for; two      *)
(* numbers with max above min.                                             *)
Acceptable(d) ==
    IF d.cls = "textPrompt"
    THEN ~d.getFontSize \/ (d.fontVar # None /\ float(d.fontVar[1]).ok)
    ELSE /\ float(d.var1).ok /\ float(d.var2).ok
         /\ Gt(float(d.var2).val, float(d.var1).val)

dialog_ok(g) == IF g.dlg.cls = "textPrompt" THEN textPrompt_ok(g) ELSE limitPrompt_ok(g)

dialog_cancel(g) ==
    IF g.dlg.cls = "textPrompt" THEN textPrompt_cancel(g) ELSE limitPrompt_cancel(g)

(* A dialog event runs a handler with result g; once the dialog is         *)
(* destroyed, wait_window returns and the opener's code runs on.  Tk       *)
(* delivers no event to a destroyed window.                                *)
DialogEvent(op, result) ==
    \E g \in {result} :
        /\ dlg' = g.dlg
        /\ focus' = g.focus
        /\ \E r \in {IF g.dlg.state = "destroyed" THEN Resume(plot, env, g.dlg)
                    ELSE Quiet(plot)} : Handled(op, r)
        /\ UNCHANGED <<call, env>>

(* The OK button or Return *)
DlgOk(via) ==
    /\ dlg.state = "open"
    /\ DialogEvent("ok", dialog_ok([dlg |-> dlg, focus |-> focus]))
    /\ seen' = [okPassed |-> seen.okPassed \/ Acceptable(dlg),
                okFailed |-> seen.okFailed \/ ~Acceptable(dlg)]

(* The Cancel button, Escape, or the window manager's close request *)
DlgCancel(via) ==
    /\ dlg.state = "open"
    /\ DialogEvent("cancel", dialog_cancel([dlg |-> dlg, focus |-> focus]))
    /\ UNCHANGED seen

(***************************************************************************)
(* SpecDialog: one dialog, as constructed by any caller, and the events    *)
(* it can receive.                                                         *)
(***************************************************************************)
Platforms == {"Darwin", "Linux", "Windows"}

InitDialogs ==
    { textPrompt(parent, initValue, initFontSize, getFontSize, "none", 0) :
        parent \in {None, Some("host")},
        initValue \in {None, Some("Energy (keV)")},
        initFontSize \in {None, Some(PyInt(12)), Some(Flt(12))},
        getFontSize \in BOOLEAN }
    \cup
    { limitPrompt(parent, initValue, "none") :
        parent \in {None, Some("host")},
        initValue \in { <<PyInt(0), PyInt(1)>>, <<Flt(2), Flt(5)>>,
                        <<Inf(1), Inf(-1)>> } }

InitDialog ==
    /\ plot = NoPlot
    /\ call = DefaultArgs
    /\ env = [platform |-> "Linux", fits |-> TRUE]
    /\ dlg \in InitDialogs
    /\ focus = "dialog"
    /\ ev = NoEvent
    /\ tog = NoTog
    /\ seen = Fresh
    /\ steps = 0
    /\ peer = NoPeer

(* An event of a specification that does not count its events. *)
Uncounted(A) == A /\ UNCHANGED steps

NextDialog ==
    \/ \E s \in LabelTexts : Uncounted(TypeText(s))
    \/ \E s \in FieldTexts : Uncounted(TypeFont(s))
    \/ \E s \in FieldTexts : Uncounted(TypeMin(s))
    \/ \E s \in FieldTexts : Uncounted(TypeMax(s))
    \/ \E via \in {"button", "Return"} : Uncounted(DlgOk(via))
    \/ \E via \in {"button", "Escape", "WM_DELETE_WINDOW"} : Uncounted(DlgCancel(via))

SpecDialog == InitDialog /\ [][NextDialog]_vars

(***************************************************************************)
(* SpecInit: a call of Plot(...) with any of the arguments below, and what *)
(* can be done to the window it leaves.                                    *)
(***************************************************************************)
MaxSeries == 3

Samples == 3

Shapes ==
    { <<Samples>> }
    \cup { <<k, Samples>> : k \in 1..MaxSeries }
    \cup { <<k, m, Samples>> : k \in 1..MaxSeries, m \in {2, 3} }

Formats == <<"r-", "b-", "g-", "k-", "c-">>

Names == <<"Shot A", "Shot B", "Shot C", "Shot D", "Shot E">>

SeqArgs(items) ==
    {PyNone, PyStr(items[1]), PyOther}
    \cup { PyList(SubSeq(items, 1, n)) : n \in 0..MaxSeries }
    \cup { PyTuple(SubSeq(items, 1, n)) : n \in 0..MaxSeries }

CtorArgs ==
    { [DefaultArgs EXCEPT !.data = d, !.plotType = t, !.fmt = f, !.labels = l] :
        d \in {NoData} \cup { [isArray |-> TRUE, shape |-> s] : s \in Shapes },
        t \in PlotTypes, f \in SeqArgs(Formats), l \in SeqArgs(Names) }

InitNone ==
    /\ plot = NoPlot
    /\ call = DefaultArgs
    /\ env \in [platform : {"Darwin", "Linux"}, fits : BOOLEAN]
    /\ dlg = NoDialog
    /\ focus = "host"
    /\ ev = NoEvent
    /\ tog = NoTog
    /\ seen = Fresh
    /\ steps = 0
    /\ peer = NoPeer

(* A caller constructs the window, once. *)
ConstructAny == plot.stage = "none" /\ \E a \in CtorArgs : Construct(a)

NextInit ==
    \/ Uncounted(ConstructAny)
    \/ Uncounted(Close("WM_DELETE_WINDOW"))
    \/ Uncounted(DefaultClose)

SpecInit == InitNone /\ [][NextInit]_vars

(***************************************************************************)
(* Spec: a plot window as a caller constructed it, and every event its     *)
(* handlers take, up to MaxEvents events.                                  *)
(***************************************************************************)
MaxEvents == 3

MenuArgs ==
    { [DefaultArgs EXCEPT !.data = [isArray |-> TRUE, shape |-> <<Samples>>],
                          !.plotType = TYPE_HISTOGRAM] }
    \cup
    { [DefaultArgs EXCEPT !.data = [isArray |-> TRUE, shape |-> <<2, Samples>>],
                          !.labels = l] :
        l \in {PyNone, PyStr(Names[1]), PyTuple(SubSeq(Names, 1, 1))} }
    \cup
    { [DefaultArgs EXCEPT
          !.data = [isArray |-> TRUE, shape |-> <<MaxSeries, 2, Samples>>],
          !.labels = l] :
        l \in {PyNone, PyList(SubSeq(Names, 1, MaxSeries)),
               PyTuple(SubSeq(Names, 1, MaxSeries))} }

MenuTexts == {"Shot A", "Energy (keV)"}

MenuFieldTexts == { <<"2">>, <<"5">>, <<"a", "b", "c">> }

LegendLocs == {2, 10}

LegendFontSizes == {6, 14}

Init ==
    \E a \in MenuArgs, e \in [platform : Platforms, fits : {TRUE}] :
        /\ plot = Plot_init(a, e).plot
        /\ call = a
        /\ env = e
        /\ dlg = NoDialog
        /\ focus = "plot"
        /\ ev = [op |-> "init", raised |-> Plot_init(a, e).raised, renders |-> 1]
        /\ tog = NoTog
        /\ seen = Fresh
        /\ steps = 0
        /\ peer = [other |-> Held(Plot_init(a, e).plot), args |-> Held(a)]

(* One of the MaxEvents events. *)
Counted(A) == steps < MaxEvents /\ steps' = steps + 1 /\ A

Next ==
    \/ Counted(ToggleLogX)
    \/ Counted(ToggleLogY)
    \/ Counted(ToggleLegend)
    \/ \E v \in LegendLocs : Counted(SelectLegendLoc(v))
    \/ \E v \in LegendFontSizes : Counted(SelectLegendFontSize(v))
    \/ \E t \in PlotTypes : Counted(SelectPlotType(t))
    \/ Counted(ToggleToolbar)
    \/ Counted(Minimize)
    \/ Counted(Zoom)
    \/ Counted(Save)
    \/ Counted(About)
    \/ Counted(Restore)
    \/ \E via \in ClosePaths : Counted(Close(via))
    \/ \E fits \in BOOLEAN : Counted(Resize(fits))
    \/ \E i \in 0..(MaxSeries - 1) : Counted(OpenRelabel(i))
    \/ \E o \in {"xlabel", "ylabel", "title", "xlim", "ylim"} : Counted(Open(o, 0))
    \/ \E s \in MenuTexts : Counted(TypeText(s))
    \/ \E s \in MenuFieldTexts : Counted(TypeFont(s))
    \/ \E s \in MenuFieldTexts : Counted(TypeMin(s))
    \/ \E s \in MenuFieldTexts : Counted(TypeMax(s))
    \/ \E via \in {"button", "Return"} : Counted(DlgOk(via))
    \/ \E via \in {"button", "Escape", "WM_DELETE_WINDOW"} : Counted(DlgCancel(via))

Spec == Init /\ [][Next]_vars

(***************************************************************************)
(* Claims                                                                  *)
(***************************************************************************)

(* C1: both dialogs follow Open -> {Confirmed with a result, Cancelled     *)
(* without one}.  An OK on unacceptable fields leaves the dialog open with *)
(* no result; an OK on acceptable fields destroys it with a result; a      *)
(* cancel destroys it with no result; an open dialog has no result; a      *)
(* destroyed dialog never changes again.                                   *)
C1_Step ==
    /\ dlg.state = "open" /\ ev'.op = "ok" /\ ~Acceptable(dlg)
         => dlg'.state = "open" /\ dlg'.result = None
    /\ dlg.state = "open" /\ ev'.op = "ok" /\ Acceptable(dlg)
         => dlg'.state = "destroyed" /\ dlg'.result # None
    /\ dlg.state = "open" /\ ev'.op = "cancel"
         => dlg'.state = "destroyed" /\ dlg'.result = None
    /\ dlg.state = "open" /\ dlg'.state = "destroyed" => ev'.op \in {"ok", "cancel"}
    /\ dlg'.state = "open" => dlg'.result = None
    /\ dlg.state = "destroyed" => dlg' = dlg

C1_DialogStateMachine == [][C1_Step]_vars

C1_Witness ==
    /\ dlg.state = "destroyed" /\ dlg.result # None
    /\ seen.okFailed /\ ev.op = "ok"

(* C2: a result is present exactly when an OK came while the fields were   *)
(* acceptable; after a cancel (button, Escape or window close), whatever   *)
(* failed confirmations came before, there is no result, the dialog is     *)
(* destroyed and the focus is on the parent window.                        *)
C2_ResultOnlyAfterConfirm ==
    /\ dlg.result # None <=> seen.okPassed
    /\ ev.op = "cancel" =>
         /\ dlg.result = None
         /\ dlg.state = "destroyed"
         /\ dlg.parent # None => focus = dlg.parent[1]

C2_Witness ==
    /\ ev.op = "cancel"
    /\ seen.okFailed /\ dlg.parent # None /\ focus = "host"

(* C3: the numeric-range dialog confirms exactly when both fields parse as *)
(* numbers and max is above min, the result then being the two numbers; so *)
(* every result it publishes has result[0] < result[1].                    *)
C3_Step ==
    dlg.cls = "limitPrompt" /\ dlg.state = "open" /\ ev'.op = "ok" =>
        IF /\ float(dlg.var1).ok /\ float(dlg.var2).ok
           /\ Gt(float(dlg.var2).val, float(dlg.var1).val)
        THEN /\ dlg'.result = <<float(dlg.var1).val, float(dlg.var2).val>>
             /\ dlg'.state = "destroyed"
        ELSE dlg'.state = "open" /\ dlg'.result = None

C3_Ordered ==
    dlg.cls = "limitPrompt" /\ dlg.result # None => Gt(dlg.result[2], dlg.result[1])

C3_LimitPrompt == [][C3_Step]_vars /\ []C3_Ordered

C3_Witness ==
    /\ dlg.cls = "limitPrompt" /\ dlg.state = "destroyed"
    /\ dlg.var1 = <<"2">> /\ dlg.var2 = <<"5">>
    /\ dlg.result = <<Flt(2), Flt(5)>>

(* C4: the text dialog validates the font size only when it asked for one. *)
(* With getFontSize, OK stores (text, size) and closes when the size field *)
(* parses as a number and otherwise leaves the dialog open without a       *)
(* result; without getFontSize, OK always stores (text, None) and closes,  *)
(* and does not raise although there is no font-size field.                *)
C4_Step ==
    dlg.cls = "textPrompt" /\ dlg.state = "open" /\ ev'.op = "ok" =>
        IF dlg.getFontSize
        THEN IF float(dlg.fontVar[1]).ok
             THEN /\ dlg'.result = <<dlg.var, Some(float(dlg.fontVar[1]).val)>>
                  /\ dlg'.state = "destroyed"
             ELSE dlg'.state = "open" /\ dlg'.result = None
        ELSE /\ dlg.fontVar = None
             /\ dlg'.result = <<dlg.var, None>>
             /\ dlg'.state = "destroyed"
             /\ ~ev'.raised

C4_TextPrompt == [][C4_Step]_vars

C4_Witness ==
    /\ dlg.cls = "textPrompt" /\ dlg.state = "destroyed" /\ dlg.getFontSize
    /\ dlg.result = <<"Energy (keV)", Some(Flt(12))>>
    /\ seen.okFailed

(* The number of data series a plot type reads from data of a shape, and  *)
(* the shapes a type expects.                                              *)
SeriesCount(shape, t) ==
    IF t = TYPE_HISTOGRAM
    THEN IF Len(shape) = 1 THEN 1 ELSE shape[1]
    ELSE IF Len(shape) = 2 THEN 1 ELSE shape[1]

Supported == {TYPE_PLOT, TYPE_ERRORBAR, TYPE_BAR, TYPE_HISTOGRAM}

ExpectedShape(d, t) ==
    /\ d.isArray
    /\ t \in {TYPE_PLOT, TYPE_ERRORBAR, TYPE_BAR}
         => Len(d.shape) >= 2 /\ d.shape[Len(d.shape) - 1] = 2
    /\ t = TYPE_HISTOGRAM => Len(d.shape) \in {1, 2}

(* An fmt or labels argument that fits n series: absent, a str for one     *)
(* series, or a list or tuple of n items.                                  *)
Fits(arg, n) ==
    \/ arg.t = "None"
    \/ arg.t = "str" /\ n = 1
    \/ arg.t \in {"list", "tuple"} /\ Len(arg.items) = n

(* The samples, label and format string series i (from 0) is to be drawn   *)
(* with.                                                                   *)
OwnX(shape, t, i) ==
    IF t = TYPE_HISTOGRAM THEN (IF Len(shape) = 1 THEN <<>> ELSE <<i>>)
    ELSE IF Len(shape) = 2 THEN <<0>> ELSE <<i, 0>>

OwnY(shape, t, i) ==
    IF t = TYPE_HISTOGRAM THEN None
    ELSE IF Len(shape) = 2 THEN Some(<<1>>) ELSE Some(<<i, 1>>)

OwnLabel(arg, i) == IF arg.t = "None" THEN SeriesNames[i + 1] ELSE arg.items[i + 1]

(* C5: for a supported plot type and fmt and labels arguments that fit the *)
(* series count (labels possibly left to default), the render step does    *)
(* not raise and draws one series per data series, from that series'       *)
(* samples, with its label and, for the calls that take one (plot and      *)
(* errorbar), its format string.  Stated for the render the constructor    *)
(* runs, in a window large enough for the layout pass.                     *)
C5_RenderOnePerSeries ==
    LET t == call.plotType
        shape == call.data.shape
        n == SeriesCount(shape, t)
    IN  /\ ev.op = "init" /\ env.fits
        /\ t \in Supported /\ ExpectedShape(call.data, t)
        /\ Fits(call.fmt, n) /\ Fits(call.labels, n)
        => /\ ~ev.raised
           /\ Len(plot.ax.series) = n
           /\ \A i \in 0..(n - 1) :
                LET dr == plot.ax.series[i + 1]
                IN  /\ dr.x = OwnX(shape, t, i)
                    /\ dr.y = OwnY(shape, t, i)
                    /\ dr.label = OwnLabel(call.labels, i)
                    /\ t \in {TYPE_PLOT, TYPE_ERRORBAR} /\ call.fmt.t # "None"
                         => dr.fmt = Some(call.fmt.items[i + 1])

(* C6: a constructor call whose data is not an array of the shape the      *)
(* initial plot type expects raises, and leaves no window behind: no       *)
(* top-level window, no canvas, no menu bar.                               *)
C6_RejectedLeavesNoWindow ==
    ev.op = "init" /\ call.plotType \in Supported
        /\ ~ExpectedShape(call.data, call.plotType)
    => ev.raised /\ plot.stage = "none" /\ plot.win = "none"

(* The part of C6 the code does keep: such a call raises.                  *)
C6_RejectedRaises ==
    ev.op = "init" /\ call.plotType \in Supported
        /\ ~ExpectedShape(call.data, call.plotType)
    => ev.raised

(* C7: after construction the stored format list, when there is one, and   *)
(* the stored label list have one entry per data series; an fmt or labels  *)
(* argument of another length, or of another type than str, list or tuple, *)
(* is replaced by the default and does not make the constructor fail.      *)
C7_SeriesCollection ==
    LET t == call.plotType
        n == SeriesCount(call.data.shape, t)
        DefaultLabels == PyList(SubSeq(SeriesNames, 1, n))
    IN  /\ ev.op = "init" /\ env.fits
        /\ t \in Supported /\ ExpectedShape(call.data, t)
        => /\ plot.fmt.t # "None" => Len(plot.fmt.items) = n
           /\ plot.labels.t # "unset" /\ Len(plot.labels.items) = n
           /\ ~Fits(call.fmt, n) => plot.fmt = PyNone
           /\ ~Fits(call.labels, n) => plot.labels = DefaultLabels
           /\ ~Fits(call.fmt, n) \/ ~Fits(call.labels, n) => ~ev.raised

(* The relabel menu shows, on the entry that relabels each series, the     *)
(* stored label of that series.                                            *)
MenuInSync(p) ==
    \A k \in 1..Len(p.relabelMenu) :
        p.relabelMenu[k].kind = "command"
            => p.relabelMenu[k].label = p.labels.items[p.relabelMenu[k].series + 1]

(* C8: a confirmed relabel dialog for series i with text L stores L as the *)
(* label of series i without raising, leaves every other label as it was, *)
(* and leaves every relabel-menu entry showing the stored label of its     *)
(* series; a cancelled relabel dialog changes neither labels nor menu.     *)
C8_Step ==
    /\ dlg.state = "open" /\ dlg.opener = "relabel" /\ env.fits
       /\ ev'.op = "ok" /\ dlg'.state = "destroyed"
         => /\ ~ev'.raised
            /\ plot'.labels.items[dlg.target + 1] = dlg'.result[1]
            /\ \A j \in 1..Len(plot.labels.items) :
                   j # dlg.target + 1 => plot'.labels.items[j] = plot.labels.items[j]
            /\ Len(plot'.labels.items) = Len(plot.labels.items)
            /\ MenuInSync(plot')
    /\ dlg.state = "open" /\ dlg.opener = "relabel" /\ ev'.op = "cancel"
         => plot'.labels = plot.labels /\ plot'.relabelMenu = plot.relabelMenu

C8_RelabelKeepsMenuInSync == [][C8_Step]_vars

(* C9: after two consecutive toggles of the Log x (Log y) entry the flag   *)
(* and the scale of that axis are what they were before the first toggle,  *)
(* the first toggle having changed the flag; each toggle ran the render    *)
(* step once; the other axis' flag and scale are the same before, between  *)
(* and after the two toggles.                                              *)
C9_DoubleToggleIsIdentity ==
    tog.count = 2 =>
        /\ Snap(plot) = tog.before2
        /\ tog.redrawn
        /\ IF tog.axis = "x"
           THEN /\ tog.before1.logX = ~tog.before2.logX
                /\ tog.before1.logY = plot.logY
                /\ tog.before1.yscale = plot.ax.yscale
           ELSE /\ tog.before1.logY = ~tog.before2.logY
                /\ tog.before1.logX = plot.logX
                /\ tog.before1.xscale = plot.ax.xscale

(* Two toggles of Log x from a set flag and a log scale, with Log y set.   *)
C9_Witness ==
    /\ tog.count = 2 /\ tog.axis = "x"
    /\ tog.before2.logX /\ tog.before2.xscale = "log"
    /\ plot.logX /\ plot.ax.xscale = "log" /\ ~tog.before1.logX

(* C10: a close, by any path, leaves the window hidden, raises nothing and *)
(* changes nothing else of the window or its constructor arguments (so a   *)
(* close of a hidden window changes nothing at all); a hidden window stays *)
(* hidden whatever happens next; the window is never destroyed.            *)
C10_Step ==
    /\ ev'.op = "close"
         => /\ plot' = [plot EXCEPT !.win = "hidden"]
            /\ ~ev'.raised
            /\ call' = call
    /\ plot.win = "hidden" => plot'.win = "hidden"
    /\ plot'.win # "destroyed"

C10_CloseHides == [][C10_Step]_vars

(* The window was closed after its configuration was changed, and closed   *)
(* again while hidden.                                                     *)
C10_Witness ==
    /\ ev.op = "close" /\ plot.win = "hidden" /\ steps = MaxEvents
    /\ plot.logX /\ plot.ax.xscale = "log"

(***************************************************************************)
(* SpecType: a window constructed on data of any rank and any second-to-   *)
(* last dimension from 1 to 4, and the plot-type, legend, log-scale and    *)
(* resize events it then takes.                                            *)
(***************************************************************************)
TypeShapes ==
    { <<Samples>> }
    \cup { <<k, Samples>> : k \in 1..4 }
    \cup { <<MaxSeries, m, Samples>> : m \in 2..4 }

TypeArgs ==
    { [DefaultArgs EXCEPT !.data = [isArray |-> TRUE, shape |-> s],
                          !.plotType = t, !.labels = l, !.legend = g] :
        s \in TypeShapes, t \in PlotTypes,
        l \in {PyNone, PyList(SubSeq(Names, 1, MaxSeries))}, g \in BOOLEAN }

InitType ==
    /\ plot = NoPlot
    /\ call = DefaultArgs
    /\ env \in [platform : {"Linux"}, fits : BOOLEAN]
    /\ dlg = NoDialog
    /\ focus = "host"
    /\ ev = NoEvent
    /\ tog = NoTog
    /\ seen = Fresh
    /\ steps = 0
    /\ peer = NoPeer

ConstructTyped == plot.stage = "none" /\ \E a \in TypeArgs : Construct(a)

NextType ==
    \/ Uncounted(ConstructTyped)
    \/ \E t \in PlotTypes : Uncounted(SelectPlotType(t))
    \/ Uncounted(ToggleLegend)
    \/ Uncounted(ToggleLogX)
    \/ \E fits \in BOOLEAN : Uncounted(Resize(fits))

SpecType == InitType /\ [][NextType]_vars

(* The plot types __plot__ has no branch for. *)
Unimplemented == PlotTypes \ Supported

(* The configuration fields of a Plot other than the plot-type tag.        *)
Config(p) ==
    [data |-> p.data, fmt |-> p.fmt, labels |-> p.labels,
     xlabel |-> p.xlabel, xlabelSize |-> p.xlabelSize,
     ylabel |-> p.ylabel, ylabelSize |-> p.ylabelSize,
     title |-> p.title, titleSize |-> p.titleSize,
     xlim |-> p.xlim, ylim |-> p.ylim, logX |-> p.logX, logY |-> p.logY,
     legend |-> p.legend, legendLoc |-> p.legendLoc,
     legendFontSize |-> p.legendFontSize, showToolbar |-> p.showToolbar]

(* C11: in a window large enough for the layout pass, selecting a plot     *)
(* type without a branch in the render step does not raise; the render     *)
(* step runs once, to its end, and leaves axes with no series and with the *)
(* limits, scales, labels and legend of the configuration, which are what  *)
(* is painted; no configuration field but the plot-type tag changes; and   *)
(* selecting afterwards a supported type that the data has the shape for   *)
(* draws every series of the data again.                                   *)
C11_Step ==
    /\ ev'.op = "plotType" /\ env.fits /\ plot'.plotTypeVar \in Unimplemented
         => /\ ~ev'.raised /\ ev'.renders = 1
            /\ plot'.ax = Configured(plot, <<>>)
            /\ plot'.drawn = plot'.ax
            /\ Config(plot') = Config(plot)
    /\ ev'.op = "plotType" /\ env.fits /\ plot.plotTypeVar \in Unimplemented
       /\ plot'.plotTypeVar \in Supported
       /\ ExpectedShape(plot.data, plot'.plotTypeVar)
         => /\ ~ev'.raised
            /\ Len(plot'.ax.series) = SeriesCount(plot.data.shape, plot'.plotTypeVar)
            /\ plot'.drawn = plot'.ax

OtherPlot(o) ==
    [NoPlot EXCEPT !.data = o.data, !.fmt = o.fmt, !.labels = o.labels,
                   !.plotTypeVar = call.plotType]

(* C12: no event handled by one Plot changes anything of a second Plot     *)
(* constructed from the same data, labels and fmt objects: the second      *)
(* Plot's stored data, fmt and labels stay as they are (its other fields   *)
(* are values of its own), its next run of the render step draws the       *)
(* series it would have drawn before, and the arguments the caller passed  *)
(* still read as they did.                                                 *)
C12_Step ==
    ev'.op # "init" =>
        /\ peer'.other = peer.other
        /\ DrawType(OtherPlot(peer'.other)) = DrawType(OtherPlot(peer.other))
        /\ peer'.args = peer.args

C12_NoSharedState == [][C12_Step]_vars

(* The data a plot type is for: second-to-last dimension 2 for line,       *)
(* error bar, bar, 2-D histogram and date plot, 3 for contour and color    *)
(* mesh, 4 for vector; rank 1 or 2 for the histogram.                      *)
Compatible(d, t) ==
    LET rank == Len(d.shape)
        dim == IF rank >= 2 THEN d.shape[rank - 1] ELSE 1
    IN  IF t \in {TYPE_PLOT, TYPE_ERRORBAR, TYPE_BAR, TYPE_2DHISTOGRAM, TYPE_DATEPLOT}
        THEN dim = 2
        ELSE IF t \in {TYPE_CONTOUR, TYPE_COLORMESH} THEN dim = 3
        ELSE IF t = TYPE_VECTOR THEN dim = 4
        ELSE IF t = TYPE_HISTOGRAM THEN rank \in {1, 2}
        ELSE TRUE

(* C13: an entry of the plot-type menu is enabled only for data the type   *)
(* is compatible with, and selecting an enabled entry, in a window large   *)
(* enough for the layout pass, does not make the render step raise.        *)
C13_Gate ==
    Built(plot) => \A t \in PlotTypes : plot.typeMenu[t] => Compatible(plot.data, t)

C13_Step == ev'.op = "plotType" /\ env.fits => ~ev'.raised

C13_GatedTypesRender == []C13_Gate /\ [][C13_Step]_vars

(* The events whose handler is a run of the render step.                   *)
RenderOps == {"log", "legend", "legendLoc", "legendFontSize", "showToolbar", "plotType"}

(* C14: a layout pass that fails does not surface.  When the window is too *)
(* small for the layout and a handler reaches the layout pass (a render    *)
(* whose drawing by type went through; a confirmed title dialog; a         *)
(* resize), the handler does not raise and its remaining steps run: the    *)
(* render paints the axes it configured, the title handler stores the new  *)
(* title and size, and a resize changes no configuration field.            *)
C14_Step ==
    /\ ~env'.fits /\ ev'.op \in RenderOps /\ ev'.renders = 1
       /\ ~DrawType(plot').raised
         => ~ev'.raised /\ plot'.drawn = plot'.ax
    /\ ~env'.fits /\ ev'.op = "ok" /\ dlg.opener = "title"
       /\ dlg'.state = "destroyed"
         => /\ ~ev'.raised
            /\ plot'.title = dlg'.result[1] /\ plot'.titleSize = dlg'.result[2][1]
    /\ ev'.op = "resize"
         => /\ ~ev'.raised
            /\ Config(plot') = Config(plot) /\ plot'.plotTypeVar = plot.plotTypeVar

C14_LayoutFailureSwallowed == [][C14_Step]_vars

(* What axes show: an empty label or title shows the same at any size.     *)
Shown(ax) ==
    [ax EXCEPT !.xlabel = IF @.text = "" THEN AxesCleared.xlabel ELSE @,
               !.ylabel = IF @.text = "" THEN AxesCleared.ylabel ELSE @,
               !.title = IF @.text = "" THEN AxesCleared.title ELSE @]

(* C15: every event that changes a configuration field or the plot type    *)
(* runs the render step once; and whenever no handler is running, what is  *)
(* painted is what the render step draws from the current configuration.   *)
C15_Step ==
    /\ ev'.op # "init"
    /\ Config(plot') # Config(plot) \/ plot'.plotTypeVar # plot.plotTypeVar
    => ev'.renders = 1

C15_Displayed ==
    Built(plot) /\ dlg.state # "open" /\ ~DrawType(plot).raised
        => Shown(plot.drawn) = Shown(Configured(plot, DrawType(plot).series))

C15_MutationRedraws == [][C15_Step]_vars /\ []C15_Displayed

(* C16: the window holds exactly one live navigation toolbar while the     *)
(* Show Toolbar flag is on and none while it is off.                       *)
C16_SingleToolbar ==
    Built(plot) => plot.toolbars = IF plot.showToolbar THEN 1 ELSE 0

(* The configuration c with the field(s) a dialog is for set to its result *)
(* r: (text, size) for the label and title dialogs, (min, max) for the     *)
(* limits dialogs.                                                         *)
Targeted(c, opener, r) ==
    IF opener = "xlabel" THEN [c EXCEPT !.xlabel = r[1], !.xlabelSize = r[2][1]]
    ELSE IF opener = "ylabel" THEN [c EXCEPT !.ylabel = r[1], !.ylabelSize = r[2][1]]
    ELSE IF opener = "title" THEN [c EXCEPT !.title = r[1], !.titleSize = r[2][1]]
    ELSE IF opener = "xlim" THEN [c EXCEPT !.xlim = Some(r)]
    ELSE [c EXCEPT !.ylim = Some(r)]

(* C17: while a label, title or limits dialog is open, typing in it, a     *)
(* rejected OK and a cancel change no configuration field and not the plot *)
(* type; a confirming OK sets the targeted field(s) to the dialog's result *)
(* and changes nothing else.                                               *)
C17_Step ==
    dlg.state = "open" /\ dlg.opener \in {"xlabel", "ylabel", "title", "xlim", "ylim"}
    /\ ev'.op \in {"type", "ok", "cancel"}
    => /\ plot'.plotTypeVar = plot.plotTypeVar
       /\ Config(plot') = IF ev'.op = "ok" /\ dlg'.state = "destroyed"
                          THEN Targeted(Config(plot), dlg.opener, dlg'.result)
                          ELSE Config(plot)

C17_DialogChangesOnlyItsTarget == [][C17_Step]_vars

====
